---- MODULE Spec2Model ----
(***************************************************************************)
(* A model of the worker-thread pool of src/src/lib.rs: ThreadPool::new,   *)
(* ThreadPool::execute, the Drop of ThreadPool and the thread loop that    *)
(* Worker::new spawns, with the mpsc channel, the Arc<Mutex<Receiver>> the *)
(* workers share and the threads' positions as state.                      *)
(***************************************************************************)
EXTENDS Integers, Sequences, FiniteSets, TLC

\* Bounds of the model.
MaxSize == 2        \* ThreadPool::new is called with a size in 0..MaxSize
MaxJobs == 3        \* at most MaxJobs calls of execute
NumProducers == 2   \* threads that call execute on the shared pool

WorkerIds == 0..(MaxSize - 1)
Jobs == 1..MaxJobs
Producers == 1..NumProducers

VARIABLES
    size,       \* the argument of ThreadPool::new
    poolPc,     \* position of the thread that constructs and later drops the pool
    id,         \* loop variable of `for id in 0..size` in new
    workers,    \* ThreadPool.workers: Vec<Worker>, records [id, thread]
    sender,     \* ThreadPool.sender: "Uninit" before mpsc::channel(), then "Some", "None" once taken
    receiver,   \* strong count of the Arc<Mutex<Receiver<Job>>>; 0 = receiver dropped
    lock,       \* set of workers holding the MutexGuard of the receiver
    poisoned,   \* the Mutex is poisoned: a thread panicked while holding its guard
    queue,      \* jobs sent on the channel and not yet received
    wpc,        \* position of each worker thread
    message,    \* per worker: <<>> for Err(_) / nothing, <<j>> for Ok(job j)
    nextJob,    \* jobs are numbered in the order execute is called
    callers,    \* producers whose send has enqueued a job
    rejected,   \* jobs whose execute panicked instead of enqueuing
    prodPc,     \* per producer: "ready" or "panicked"
    delivered,  \* history: the jobs in the order recv returned them as Ok(job)
    invoked,    \* history: job -> number of times job() was called
    completed,  \* history: job -> number of times job() returned
    failed,     \* history: jobs whose body panicked
    di,         \* index of drop's `for worker in &mut self.workers`
    joinBegun,  \* history: worker ids in the order drop called thread.join()
    joinDone    \* history: worker ids in the order thread.join() returned Ok

vars == <<size, poolPc, id, workers, sender, receiver, lock, poisoned, queue, wpc, message,
          nextJob, callers, rejected, prodPc, delivered, invoked, completed, failed,
          di, joinBegun, joinDone>>

poolVars == <<size, poolPc, id, workers, di, joinBegun, joinDone>>
jobHist == <<delivered, invoked, completed, failed>>
prodVars == <<nextJob, callers, rejected, prodPc>>

TypeOK ==
    /\ size \in 0..MaxSize
    /\ poolPc \in {"new", "channel", "spawn", "open", "drop_loop", "join",
                   "closed", "new_panicked", "drop_panicked"}
    /\ id \in 0..MaxSize
    /\ sender \in {"Uninit", "Some", "None"}
    /\ receiver \in 0..(MaxSize + 1)
    /\ lock \subseteq WorkerIds
    /\ poisoned \in BOOLEAN
    /\ wpc \in [WorkerIds -> {"unspawned", "lock", "recv", "match", "run",
                              "exited", "panicked"}]
    /\ nextJob \in 1..(MaxJobs + 1)
    /\ rejected \subseteq Jobs
    /\ callers \subseteq Producers
    /\ failed \subseteq Jobs

Init ==
    /\ size \in 0..MaxSize
    /\ poolPc = "new"
    /\ id = 0
    /\ workers = <<>>
    /\ sender = "Uninit"
    /\ receiver = 0
    /\ lock = {}
    /\ poisoned = FALSE
    /\ queue = <<>>
    /\ wpc = [w \in WorkerIds |-> "unspawned"]
    /\ message = [w \in WorkerIds |-> <<>>]
    /\ nextJob = 1
    /\ callers = {}
    /\ rejected = {}
    /\ prodPc = [p \in Producers |-> "ready"]
    /\ delivered = <<>>
    /\ invoked = [j \in Jobs |-> 0]
    /\ completed = [j \in Jobs |-> 0]
    /\ failed = {}
    /\ di = 0
    /\ joinBegun = <<>>
    /\ joinDone = <<>>

\* ---------------------------------------------------------------- new

\* Mutant of NewAssert: the assertion is missing.
NewAssertNoCheck ==
    /\ poolPc = "new"
    /\ poolPc' = "channel"
    /\ UNCHANGED <<size, id, workers, sender, receiver, lock, queue, wpc, message,
                   prodVars, jobHist, di, joinBegun, joinDone>>
    /\ UNCHANGED poisoned

\* assert!(size > 0)
NewAssert ==
    /\ poolPc = "new"
    /\ poolPc' = IF size > 0 THEN "channel" ELSE "new_panicked"
    /\ UNCHANGED <<size, id, workers, sender, receiver, lock, queue, wpc, message,
                   prodVars, jobHist, di, joinBegun, joinDone>>
    /\ UNCHANGED poisoned

\* mpsc::channel(); Arc::new(Mutex::new(receiver)); Vec::with_capacity(size)
NewChannel ==
    /\ poolPc = "channel"
    /\ sender' = "Some"
    /\ receiver' = 1
    /\ id' = 0
    /\ poolPc' = "spawn"
    /\ UNCHANGED <<size, workers, lock, queue, wpc, message, prodVars, jobHist,
                   di, joinBegun, joinDone>>
    /\ UNCHANGED poisoned

\* Mutant of NewSpawn: the worker is given the identity id + 1.
NewSpawnFromOne ==
    /\ poolPc = "spawn"
    /\ id < size
    /\ workers' = Append(workers, [id |-> id + 1, thread |-> "Some"])
    /\ wpc' = [wpc EXCEPT ![id] = "lock"]
    /\ receiver' = receiver + 1
    /\ id' = id + 1
    /\ UNCHANGED <<size, poolPc, sender, lock, queue, message, prodVars, jobHist,
                   di, joinBegun, joinDone>>
    /\ UNCHANGED poisoned

\* One iteration of the loop: workers.push(Worker::new(id, Arc::clone(&receiver))).
\* thread::spawn returns at once; the new thread is at the top of its loop.
NewSpawn ==
    /\ poolPc = "spawn"
    /\ id < size
    /\ workers' = Append(workers, [id |-> id, thread |-> "Some"])
    /\ wpc' = [wpc EXCEPT ![id] = "lock"]
    /\ receiver' = receiver + 1
    /\ id' = id + 1
    /\ UNCHANGED <<size, poolPc, sender, lock, queue, message, prodVars, jobHist,
                   di, joinBegun, joinDone>>
    /\ UNCHANGED poisoned

\* ThreadPool { workers, sender: Some(sender) }; the local Arc `receiver` is dropped.
NewReturn ==
    /\ poolPc = "spawn"
    /\ id = size
    /\ poolPc' = "open"
    /\ receiver' = receiver - 1
    /\ UNCHANGED <<size, id, workers, sender, lock, queue, wpc, message, prodVars,
                   jobHist, di, joinBegun, joinDone>>
    /\ UNCHANGED poisoned

\* ------------------------------------------------------------ execute

\* Mutant of Execute: a rendezvous channel, send waits until the queue is empty.
ExecuteBounded(p) ==
    /\ prodPc[p] = "ready"
    /\ poolPc \in {"open", "drop_loop", "join"}
    /\ nextJob <= MaxJobs
    /\ queue = <<>>
    /\ nextJob' = nextJob + 1
    /\ IF sender = "Some" /\ receiver > 0
       THEN /\ queue' = Append(queue, nextJob)
            /\ callers' = callers \cup {p}
            /\ UNCHANGED <<rejected, prodPc>>
       ELSE /\ rejected' = rejected \cup {nextJob}
            /\ prodPc' = [prodPc EXCEPT ![p] = "panicked"]
            /\ UNCHANGED <<queue, callers>>
    /\ UNCHANGED <<poolVars, sender, receiver, lock, wpc, message, jobHist>>
    /\ UNCHANGED poisoned

\* Mutant of Execute: the job is enqueued whether or not the sender is still there.
ExecuteNoCheck(p) ==
    /\ prodPc[p] = "ready"
    /\ poolPc \in {"open", "drop_loop", "join"}
    /\ nextJob <= MaxJobs
    /\ nextJob' = nextJob + 1
    /\ queue' = Append(queue, nextJob)
    /\ callers' = callers \cup {p}
    /\ UNCHANGED <<rejected, prodPc>>
    /\ UNCHANGED <<poolVars, sender, receiver, lock, wpc, message, jobHist>>
    /\ UNCHANGED poisoned

\* self.sender.as_ref().unwrap().send(job).unwrap()
\* as_ref().unwrap() panics when the sender was taken; send returns Err, and the
\* second unwrap panics, when the receiver has been dropped. Otherwise the job is
\* appended to the unbounded channel. The caller holds no lock and waits for nothing.
Execute(p) ==
    /\ prodPc[p] = "ready"
    /\ poolPc \in {"open", "drop_loop", "join"}
    /\ nextJob <= MaxJobs
    /\ nextJob' = nextJob + 1
    /\ IF sender = "Some" /\ receiver > 0
       THEN /\ queue' = Append(queue, nextJob)
            /\ callers' = callers \cup {p}
            /\ UNCHANGED <<rejected, prodPc>>
       ELSE /\ rejected' = rejected \cup {nextJob}
            /\ prodPc' = [prodPc EXCEPT ![p] = "panicked"]
            /\ UNCHANGED <<queue, callers>>
    /\ UNCHANGED <<poolVars, sender, receiver, lock, wpc, message, jobHist>>
    /\ UNCHANGED poisoned

\* ------------------------------------------------- Worker thread loop

\* Mutant of WorkerLock: the guard is handed out although another worker holds it.
WorkerLockNoExclusion(w) ==
    /\ wpc[w] = "lock"
    /\ lock' = lock \cup {w}
    /\ wpc' = [wpc EXCEPT ![w] = "recv"]
    /\ UNCHANGED <<poolVars, sender, receiver, poisoned, queue, message, prodVars,
                   jobHist>>

\* receiver.lock().unwrap(): the thread acquires the mutex when it is free and
\* waits at this position while another worker holds the guard. On a poisoned
\* mutex lock() returns Err, unwrap panics and the thread ends.
WorkerLock(w) ==
    /\ wpc[w] = "lock"
    /\ lock = {}
    /\ IF poisoned
       THEN /\ wpc' = [wpc EXCEPT ![w] = "panicked"]
            /\ receiver' = receiver - 1
            /\ UNCHANGED lock
       ELSE /\ lock' = {w}
            /\ wpc' = [wpc EXCEPT ![w] = "recv"]
            /\ UNCHANGED receiver
    /\ UNCHANGED <<poolVars, sender, poisoned, queue, message, prodVars, jobHist>>

\* Mutant of WorkerRecv: recv reports Err(_) as soon as the sender is gone, even
\* with jobs still queued.
WorkerRecvAbandon(w) ==
    /\ wpc[w] = "recv"
    /\ \/ /\ queue # <<>>
          /\ sender # "None"
          /\ message' = [message EXCEPT ![w] = <<Head(queue)>>]
          /\ queue' = Tail(queue)
          /\ delivered' = Append(delivered, Head(queue))
       \/ /\ sender = "None"
          /\ message' = [message EXCEPT ![w] = <<>>]
          /\ UNCHANGED <<queue, delivered>>
    /\ lock' = lock \ {w}
    /\ wpc' = [wpc EXCEPT ![w] = "match"]
    /\ UNCHANGED <<poolVars, sender, receiver, prodVars, invoked, completed, failed>>
    /\ UNCHANGED poisoned

\* Mutant of WorkerRecv: the received job is left at the head of the queue.
WorkerRecvPeek(w) ==
    /\ wpc[w] = "recv"
    /\ \/ /\ queue # <<>>
          /\ message' = [message EXCEPT ![w] = <<Head(queue)>>]
          /\ queue' = queue
          /\ delivered' = Append(delivered, Head(queue))
       \/ /\ queue = <<>>
          /\ sender = "None"
          /\ message' = [message EXCEPT ![w] = <<>>]
          /\ UNCHANGED <<queue, delivered>>
    /\ lock' = lock \ {w}
    /\ wpc' = [wpc EXCEPT ![w] = "match"]
    /\ UNCHANGED <<poolVars, sender, receiver, prodVars, invoked, completed, failed>>
    /\ UNCHANGED poisoned

\* Mutant of WorkerRecv: recv never reports the closed channel.
WorkerRecvNoClose(w) ==
    /\ wpc[w] = "recv"
    /\ queue # <<>>
    /\ message' = [message EXCEPT ![w] = <<Head(queue)>>]
    /\ queue' = Tail(queue)
    /\ delivered' = Append(delivered, Head(queue))
    /\ lock' = lock \ {w}
    /\ wpc' = [wpc EXCEPT ![w] = "match"]
    /\ UNCHANGED <<poolVars, sender, receiver, prodVars, invoked, completed, failed>>
    /\ UNCHANGED poisoned

\* Mutant of WorkerRecv: recv hands out the job sent last.
WorkerRecvLifo(w) ==
    /\ wpc[w] = "recv"
    /\ \/ /\ queue # <<>>
          /\ message' = [message EXCEPT ![w] = <<queue[Len(queue)]>>]
          /\ queue' = SubSeq(queue, 1, Len(queue) - 1)
          /\ delivered' = Append(delivered, queue[Len(queue)])
       \/ /\ queue = <<>>
          /\ sender = "None"
          /\ message' = [message EXCEPT ![w] = <<>>]
          /\ UNCHANGED <<queue, delivered>>
    /\ lock' = lock \ {w}
    /\ wpc' = [wpc EXCEPT ![w] = "match"]
    /\ UNCHANGED <<poolVars, sender, receiver, prodVars, invoked, completed, failed>>
    /\ UNCHANGED poisoned

\* Mutant of WorkerRecv: the MutexGuard outlives the statement and is still held
\* while the message is matched and the job runs.
WorkerRecvKeepLock(w) ==
    /\ wpc[w] = "recv"
    /\ \/ /\ queue # <<>>
          /\ message' = [message EXCEPT ![w] = <<Head(queue)>>]
          /\ queue' = Tail(queue)
          /\ delivered' = Append(delivered, Head(queue))
       \/ /\ queue = <<>>
          /\ sender = "None"
          /\ message' = [message EXCEPT ![w] = <<>>]
          /\ UNCHANGED <<queue, delivered>>
    /\ lock' = lock
    /\ wpc' = [wpc EXCEPT ![w] = "match"]
    /\ UNCHANGED <<poolVars, sender, receiver, prodVars, invoked, completed, failed>>
    /\ UNCHANGED poisoned

\* .recv() returns, and the temporary MutexGuard is dropped at the end of the
\* `let message = ...;` statement. recv returns Ok(job) while a job is queued,
\* Err(_) when the queue is empty and the sender is gone, and blocks otherwise.
WorkerRecv(w) ==
    /\ wpc[w] = "recv"
    /\ \/ /\ queue # <<>>
          /\ message' = [message EXCEPT ![w] = <<Head(queue)>>]
          /\ queue' = Tail(queue)
          /\ delivered' = Append(delivered, Head(queue))
       \/ /\ queue = <<>>
          /\ sender = "None"
          /\ message' = [message EXCEPT ![w] = <<>>]
          /\ UNCHANGED <<queue, delivered>>
    /\ lock' = lock \ {w}
    /\ wpc' = [wpc EXCEPT ![w] = "match"]
    /\ UNCHANGED <<poolVars, sender, receiver, prodVars, invoked, completed, failed>>
    /\ UNCHANGED poisoned

\* Mutant of WorkerMatch: the job is started on a thread of its own and the worker
\* goes round the loop without waiting for it.
WorkerMatchDetach(w) ==
    /\ wpc[w] = "match"
    /\ IF message[w] # <<>>
       THEN /\ wpc' = [wpc EXCEPT ![w] = "lock"]
            /\ invoked' = [invoked EXCEPT ![message[w][1]] = @ + 1]
            /\ UNCHANGED receiver
       ELSE /\ wpc' = [wpc EXCEPT ![w] = "exited"]
            /\ receiver' = receiver - 1
            /\ UNCHANGED invoked
    /\ UNCHANGED <<poolVars, sender, lock, queue, message, prodVars, delivered,
                   completed, failed>>
    /\ UNCHANGED poisoned

\* match message: Ok(job) => job() is called; Err(_) => break, the closure ends
\* and its clone of the Arc is dropped.
WorkerMatch(w) ==
    /\ wpc[w] = "match"
    /\ IF message[w] # <<>>
       THEN /\ wpc' = [wpc EXCEPT ![w] = "run"]
            /\ invoked' = [invoked EXCEPT ![message[w][1]] = @ + 1]
            /\ UNCHANGED receiver
       ELSE /\ wpc' = [wpc EXCEPT ![w] = "exited"]
            /\ receiver' = receiver - 1
            /\ UNCHANGED invoked
    /\ UNCHANGED <<poolVars, sender, lock, queue, message, prodVars, delivered,
                   completed, failed>>
    /\ UNCHANGED poisoned

\* Mutant of JobReturn: the thread leaves the loop after its first job.
JobReturnNoLoop(w) ==
    /\ wpc[w] = "run"
    /\ completed' = [completed EXCEPT ![message[w][1]] = @ + 1]
    /\ message' = [message EXCEPT ![w] = <<>>]
    /\ wpc' = [wpc EXCEPT ![w] = "exited"]
    /\ receiver' = receiver - 1
    /\ UNCHANGED <<poolVars, sender, lock, queue, prodVars, delivered, invoked,
                   failed>>
    /\ UNCHANGED poisoned

\* job() returns; the loop goes round.
JobReturn(w) ==
    /\ wpc[w] = "run"
    /\ completed' = [completed EXCEPT ![message[w][1]] = @ + 1]
    /\ message' = [message EXCEPT ![w] = <<>>]
    /\ wpc' = [wpc EXCEPT ![w] = "lock"]
    /\ UNCHANGED <<poolVars, sender, receiver, lock, queue, prodVars, delivered,
                   invoked, failed>>
    /\ UNCHANGED poisoned

\* job() panics: nothing catches it, the thread unwinds and ends, dropping the
\* closure's clone of the Arc. A MutexGuard alive at this point would be dropped
\* by the unwinding and would poison the mutex.
JobPanic(w) ==
    /\ wpc[w] = "run"
    /\ failed' = failed \cup {message[w][1]}
    /\ message' = [message EXCEPT ![w] = <<>>]
    /\ wpc' = [wpc EXCEPT ![w] = "panicked"]
    /\ receiver' = receiver - 1
    /\ poisoned' = (poisoned \/ w \in lock)
    /\ lock' = lock \ {w}
    /\ UNCHANGED <<poolVars, sender, queue, prodVars, delivered, invoked,
                   completed>>

\* --------------------------------------------------------------- drop

\* drop(self.sender.take())
DropSender ==
    /\ poolPc = "open"
    /\ sender' = "None"
    /\ di' = 0
    /\ poolPc' = "drop_loop"
    /\ UNCHANGED <<size, id, workers, receiver, lock, queue, wpc, message, prodVars,
                   jobHist, joinBegun, joinDone>>
    /\ UNCHANGED poisoned

\* Mutant of DropTake: the workers are visited from the last to the first.
DropTakeReverse ==
    /\ poolPc = "drop_loop"
    /\ di < Len(workers)
    /\ workers' = [workers EXCEPT ![Len(workers) - di].thread = "None"]
    /\ joinBegun' = Append(joinBegun, workers[Len(workers) - di].id)
    /\ poolPc' = "join"
    /\ UNCHANGED <<size, id, di, sender, receiver, lock, queue, wpc, message, prodVars,
                   jobHist, joinDone>>
    /\ UNCHANGED poisoned

\* Next iteration of `for worker in &mut self.workers`: println, then
\* `if let Some(thread) = worker.thread.take()` and the call of thread.join().
DropTake ==
    /\ poolPc = "drop_loop"
    /\ di < Len(workers)
    /\ IF workers[di + 1].thread = "Some"
       THEN /\ workers' = [workers EXCEPT ![di + 1].thread = "None"]
            /\ joinBegun' = Append(joinBegun, workers[di + 1].id)
            /\ poolPc' = "join"
            /\ UNCHANGED di
       ELSE /\ di' = di + 1
            /\ UNCHANGED <<workers, joinBegun, poolPc>>
    /\ UNCHANGED <<size, id, sender, receiver, lock, queue, wpc, message, prodVars,
                   jobHist, joinDone>>
    /\ UNCHANGED poisoned

\* Mutant of DropJoin: the handle is dropped instead of joined, drop goes on
\* without waiting for the thread.
DropJoinNoWait ==
    /\ poolPc = "join"
    /\ joinDone' = Append(joinDone, workers[di + 1].id)
    /\ di' = di + 1
    /\ poolPc' = "drop_loop"
    /\ UNCHANGED <<size, id, workers, sender, receiver, lock, queue, wpc, message,
                   prodVars, jobHist, joinBegun>>
    /\ UNCHANGED poisoned

\* Mutant of DropJoin: the result of join is ignored.
DropJoinIgnoreErr ==
    /\ poolPc = "join"
    /\ wpc[workers[di + 1].id] \in {"exited", "panicked"}
    /\ joinDone' = Append(joinDone, workers[di + 1].id)
    /\ di' = di + 1
    /\ poolPc' = "drop_loop"
    /\ UNCHANGED <<size, id, workers, sender, receiver, lock, queue, wpc, message,
                   prodVars, jobHist, joinBegun>>
    /\ UNCHANGED poisoned

\* thread.join().unwrap(): join returns when the worker thread has ended, Ok
\* when it returned and Err when it panicked; unwrap panics on Err.
DropJoin ==
    /\ poolPc = "join"
    /\ wpc[workers[di + 1].id] \in {"exited", "panicked"}
    /\ IF wpc[workers[di + 1].id] = "exited"
       THEN /\ joinDone' = Append(joinDone, workers[di + 1].id)
            /\ di' = di + 1
            /\ poolPc' = "drop_loop"
       ELSE /\ poolPc' = "drop_panicked"
            /\ UNCHANGED <<joinDone, di>>
    /\ UNCHANGED <<size, id, workers, sender, receiver, lock, queue, wpc, message,
                   prodVars, jobHist, joinBegun>>
    /\ UNCHANGED poisoned

\* The loop is over: drop returns.
DropReturn ==
    /\ poolPc = "drop_loop"
    /\ di = Len(workers)
    /\ poolPc' = "closed"
    /\ UNCHANGED <<size, id, workers, sender, receiver, lock, queue, wpc, message,
                   prodVars, jobHist, di, joinBegun, joinDone>>
    /\ UNCHANGED poisoned

\* ------------------------------------------------------ specifications

\* Jobs whose bodies return.
Next ==
    \/ NewAssert
    \/ NewChannel
    \/ NewSpawn
    \/ NewReturn
    \/ \E p \in Producers : Execute(p)
    \/ \E w \in WorkerIds : WorkerLock(w)
    \/ \E w \in WorkerIds : WorkerRecv(w)
    \/ \E w \in WorkerIds : WorkerMatch(w)
    \/ \E w \in WorkerIds : JobReturn(w)
    \/ DropSender
    \/ DropTake
    \/ DropJoin
    \/ DropReturn

Spec == Init /\ [][Next]_vars

\* Jobs whose bodies may panic.
NextPanic ==
    \/ Next
    \/ \E w \in WorkerIds : JobPanic(w)

SpecPanic == Init /\ [][NextPanic]_vars

\* Steps of worker thread w, and the steps of the owning thread other than the
\* decision to drop the pool.
WorkerStep(w) == WorkerLock(w) \/ WorkerRecv(w) \/ WorkerMatch(w) \/ JobReturn(w)
OwnerStep == NewAssert \/ NewChannel \/ NewSpawn \/ NewReturn \/ DropTake \/ DropJoin \/ DropReturn

\* Every thread that can take a step eventually takes it: the operating system
\* schedules the owning thread and the workers, and job bodies return. Nothing
\* obliges a caller to call execute or the owner to drop the pool.
Fairness ==
    /\ WF_vars(OwnerStep)
    /\ \A w \in WorkerIds : WF_vars(WorkerStep(w))

FairSpec == Init /\ [][Next]_vars /\ Fairness

\* ------------------------------------------------------------- claims

PoolExists == poolPc \in {"open", "drop_loop", "join", "closed", "drop_panicked"}
Accepted == {j \in Jobs : j < nextJob /\ j \notin rejected}
InQueue(j) == \E k \in 1..Len(queue) : queue[k] = j
Deliveries(j) == {k \in 1..Len(delivered) : delivered[k] = j}
Spawned == {w \in WorkerIds : wpc[w] # "unspawned"}

\* C1: when drop has returned, every job that execute accepted has been invoked
\* exactly once and has completed, and nothing is left in the queue.
C1_AllJobsRunOnceAtTeardown ==
    poolPc = "closed" =>
        /\ queue = <<>>
        /\ \A j \in Accepted :
            /\ invoked[j] = 1
            /\ completed[j] = 1
            /\ Cardinality(Deliveries(j)) = 1
        /\ \A w \in Spawned : wpc[w] = "exited"

\* C1 witness: a pool of two workers has been dropped after accepting every job.
C1_Witness ==
    /\ poolPc = "closed"
    /\ size = 2
    /\ Accepted = Jobs

\* C2: in every state each job has been received by at most one worker and
\* invoked at most once, and no two workers hold the same job.
C2_ExclusiveHandOff ==
    /\ \A j \in Jobs :
        /\ Cardinality(Deliveries(j)) <= 1
        /\ invoked[j] <= 1
        /\ Cardinality({w \in WorkerIds : message[w] = <<j>>}) <= 1
        /\ ~(InQueue(j) /\ Deliveries(j) # {})
    /\ \A k \in 1..Len(queue), l \in 1..Len(queue) : queue[k] = queue[l] => k = l

\* C2 witness: two workers are running two different jobs at the same time.
C2_Witness ==
    \E w1 \in WorkerIds, w2 \in WorkerIds :
        /\ w1 # w2
        /\ wpc[w1] = "run"
        /\ wpc[w2] = "run"
        /\ message[w1] # message[w2]

\* C3: once teardown has begun (the sender is taken) the pool eventually reaches
\* Closed with every worker joined, whatever jobs are completed, running or still
\* queued at that moment; and a pool torn down with no job submitted runs no job
\* and panics nowhere.
C3_TeardownTerminates ==
    /\ (sender = "None") ~> (poolPc = "closed" /\ Len(joinDone) = size)
    /\ [](Accepted = {} =>
            /\ \A j \in Jobs : invoked[j] = 0
            /\ poolPc # "drop_panicked"
            /\ \A w \in WorkerIds : wpc[w] # "panicked")

\* C3 witness: teardown has begun with no job submitted while a worker thread has
\* not yet reached recv and another one waits inside it.
C3_Witness ==
    /\ sender = "None"
    /\ nextJob = 1
    /\ \E w1 \in WorkerIds, w2 \in WorkerIds : wpc[w1] = "lock" /\ wpc[w2] = "recv"

\* C4: every job that execute enqueued is eventually invoked by some worker.
C4_EveryJobEventuallyStarted ==
    \A j \in Jobs : (j \in Accepted) ~> (invoked[j] >= 1)

\* C4 witness: two producers have enqueued jobs for a pool of one worker, which is
\* running a job while more jobs than there are workers wait in the queue.
C4_Witness ==
    /\ poolPc = "open"
    /\ size = 1
    /\ Cardinality(callers) >= 2
    /\ wpc[0] = "run"
    /\ Len(queue) > size

\* C5: with size = 0 construction stops at the assertion with no channel, no
\* receiver and no worker, and every pool that exists has at least one worker.
C5_NewZeroFails ==
    /\ size = 0 =>
        /\ poolPc \in {"new", "new_panicked"}
        /\ sender = "Uninit"
        /\ receiver = 0
        /\ workers = <<>>
        /\ Spawned = {}
    /\ PoolExists => (size > 0 /\ Len(workers) = size /\ Len(workers) >= 1)

\* C5 witness: new(0) has failed at the assertion.
C5_Witness ==
    /\ size = 0
    /\ poolPc = "new_panicked"

\* C6 as stated: before any execute call every one of the size workers is
\* idle-waiting on the queue, that is, blocked inside recv.
C6_AllIdleBeforeExecute ==
    (poolPc = "open" /\ nextJob = 1) =>
        /\ Len(workers) = size
        /\ \A k \in 1..Len(workers) : workers[k].id = k - 1 /\ wpc[k - 1] = "recv"

\* C6 as amended: before any execute call the pool holds exactly size workers with
\* identities 0..size-1, each thread is alive with its handle in the pool and is
\* either at the acquisition of the receiver mutex or inside recv, and at most
\* one of them is inside recv.
C6_AllAliveBeforeExecute ==
    (poolPc = "open" /\ nextJob = 1) =>
        /\ Len(workers) = size
        /\ Spawned = 0..(size - 1)
        /\ \A k \in 1..Len(workers) :
            /\ workers[k].id = k - 1
            /\ workers[k].thread = "Some"
            /\ wpc[k - 1] \in {"lock", "recv"}
        /\ Cardinality({w \in WorkerIds : wpc[w] = "recv"}) <= 1

\* C6 witness: the pool is open, no execute was called, one worker waits in recv
\* and another one is still at the acquisition of the mutex.
C6_Witness ==
    /\ poolPc = "open"
    /\ nextJob = 1
    /\ \E w1 \in WorkerIds, w2 \in WorkerIds : wpc[w1] = "recv" /\ wpc[w2] = "lock"

\* C7: while the pool is open a caller's execute is enabled and completes in that
\* one step, whatever the queue length and whatever the workers are doing (running
\* jobs, holding the receiver mutex inside recv): no worker moves and no job is
\* started by it, and while the receiver lives the step appends the job to the queue.
C7_ExecuteNeverBlocks ==
    \A p \in Producers :
        (poolPc = "open" /\ prodPc[p] = "ready" /\ nextJob <= MaxJobs) =>
            ENABLED (/\ Execute(p)
                     /\ receiver > 0 => queue' = Append(queue, nextJob)
                     /\ wpc' = wpc
                     /\ lock' = lock
                     /\ invoked' = invoked)

\* C7 witness: the pool is open, a job is queued behind a running one while a
\* worker holds the receiver mutex, and another execute can still be issued.
C7_Witness ==
    /\ poolPc = "open"
    /\ nextJob <= MaxJobs
    /\ queue # <<>>
    /\ lock # {}
    /\ \E w \in WorkerIds : wpc[w] = "run"

\* C8: an execute called once the sender has been taken panics; its job is not
\* enqueued and never delivered or run, and the queue, the workers and the lock
\* are as they were.
C8_ExecuteAfterTeardownFails ==
    /\ [][\A p \in Producers : (Execute(p) /\ sender = "None") =>
            /\ prodPc'[p] = "panicked"
            /\ nextJob \in rejected'
            /\ queue' = queue
            /\ wpc' = wpc
            /\ message' = message
            /\ lock' = lock]_vars
    /\ [](\A j \in rejected : ~InQueue(j) /\ Deliveries(j) = {} /\ invoked[j] = 0)

\* C8 witness: an execute issued after the sender was taken has panicked.
C8_Witness ==
    /\ sender = "None"
    /\ rejected # {}
    /\ \E p \in Producers : prodPc[p] = "panicked"

\* C9 as stated: while the pool is open the receiver is alive and no send fails;
\* the receiver is gone only when the pool is torn down and every worker thread
\* has ended.
C9_ReceiverAliveWhileOpen ==
    /\ poolPc = "open" => receiver > 0
    /\ poolPc = "open" => rejected = {}

\* C10: the sender is taken before the first join begins, the joins begin and
\* return in the order 0, 1, ..., and a join begins only when all earlier ones
\* have returned.
C10_TeardownOrder ==
    /\ joinBegun # <<>> => sender = "None"
    /\ \A k \in 1..Len(joinBegun) : joinBegun[k] = k - 1
    /\ \A k \in 1..Len(joinDone) : joinDone[k] = k - 1
    /\ Len(joinDone) <= Len(joinBegun)
    /\ Len(joinBegun) <= Len(joinDone) + 1
    /\ \A k \in 1..Len(joinDone) : wpc[joinDone[k]] = "exited"

\* C10 witness: both workers of a pool of two have been joined.
C10_Witness ==
    /\ size = 2
    /\ Len(joinDone) = 2
    /\ poolPc = "closed"

Joined == {workers[k].id : k \in {i \in 1..Len(workers) : workers[i].thread = "None"}}
JoinCount(w) == Cardinality({k \in 1..Len(joinBegun) : joinBegun[k] = w})

\* C11 as stated: when drop is over, by returning or by panicking, every thread
\* that new spawned has been joined exactly once.
C11_NoThreadLeftUnjoined ==
    poolPc \in {"closed", "drop_panicked"} =>
        \A w \in Spawned : w \in Joined /\ JoinCount(w) = 1

\* C12: the pool goes Open -> Closing -> Closed: it leaves Open only by drop taking
\* the sender, it never comes back to Open, Closed is entered only from Closing and
\* never left, and in Closed every worker thread has ended and has been joined.
C12_LifecycleMonotonic ==
    /\ [][/\ (poolPc = "open" /\ poolPc' # "open") =>
                (DropSender /\ poolPc' = "drop_loop" /\ sender' = "None")
          /\ (poolPc # "open" /\ poolPc' = "open") => (poolPc = "spawn" /\ NewReturn)
          /\ (poolPc \in {"drop_loop", "join"}) =>
                poolPc' \in {"drop_loop", "join", "closed", "drop_panicked"}
          /\ (poolPc # "closed" /\ poolPc' = "closed") => poolPc = "drop_loop"
          /\ poolPc = "closed" => poolPc' = "closed"]_vars
    /\ [](poolPc = "closed" =>
            /\ sender = "None"
            /\ Len(joinDone) = size
            /\ \A w \in 0..(size - 1) : wpc[w] = "exited" /\ w \in Joined)

\* C12 witness: a pool of two workers is Closed after having run a job.
C12_Witness ==
    /\ poolPc = "closed"
    /\ size = 2
    /\ \E j \in Jobs : completed[j] = 1

\* C13: a worker thread ends only by matching Err(_), recv gives Err(_) only with
\* the sender taken and the queue empty, so no worker ends while the pool is open;
\* otherwise a worker goes lock -> recv -> match -> run -> lock.
C13_WorkerStateMachine ==
    /\ [][\A w \in WorkerIds :
            /\ (wpc[w] # "exited" /\ wpc'[w] = "exited") =>
                    (wpc[w] = "match" /\ message[w] = <<>> /\ sender = "None")
            /\ (wpc[w] = "recv" /\ wpc'[w] = "match" /\ message'[w] = <<>>) =>
                    (queue = <<>> /\ sender = "None")
            /\ wpc[w] = "lock" => wpc'[w] \in {"lock", "recv"}
            /\ wpc[w] = "recv" => wpc'[w] \in {"recv", "match"}
            /\ wpc[w] = "match" => wpc'[w] \in {"match", "run", "exited"}
            /\ wpc[w] = "run" => wpc'[w] \in {"run", "lock"}
            /\ wpc[w] = "exited" => wpc'[w] = "exited"]_vars
    /\ [](\A w \in WorkerIds :
            /\ wpc[w] = "exited" => sender = "None"
            /\ poolPc = "open" => wpc[w] # "exited")

\* C13 witness: a worker has ended after running a job while another one is
\* still running the job it received.
C13_Witness ==
    \E w1 \in WorkerIds, w2 \in WorkerIds :
        /\ wpc[w1] = "exited"
        /\ wpc[w2] = "run"
        /\ \E j \in Jobs : completed[j] = 1

Running == {w \in WorkerIds : wpc[w] = "run"}
RunningJobs == {j \in Jobs : invoked[j] > completed[j] /\ j \notin failed}

\* C14: in a pool of one worker at most one job runs at a time and a job is
\* started only when every job submitted before it has completed.
C14_SingleWorkerSerializes ==
    size = 1 =>
        /\ Cardinality(RunningJobs) <= 1
        /\ \A a \in Accepted, b \in Accepted :
              (a < b /\ invoked[b] >= 1) => completed[a] = 1

\* C14 witness: the only worker runs the second job after the first has completed.
C14_Witness ==
    /\ size = 1
    /\ wpc[0] = "run"
    /\ message[0] = <<2>>
    /\ completed[1] = 1

\* A live worker thread that cannot take a step.
Blocked(w) ==
    /\ wpc[w] \in {"lock", "recv", "match", "run"}
    /\ ~ENABLED (WorkerStep(w) \/ JobPanic(w))

\* C15 as stated: a worker thread that is suspended is inside recv; none waits
\* for the receiver mutex.
C15_SuspendsOnlyInRecv ==
    \A w \in WorkerIds : Blocked(w) => wpc[w] = "recv"

\* C15 as amended: a suspended worker thread is either inside recv, holding the
\* mutex, with the queue empty and the sender alive, or inside lock() while
\* another worker holds the mutex inside recv; it is suspended nowhere else.
C15_SuspendsInRecvOrLock ==
    \A w \in WorkerIds : Blocked(w) =>
        \/ wpc[w] = "recv" /\ lock = {w} /\ queue = <<>> /\ sender = "Some"
        \/ /\ wpc[w] = "lock"
           /\ \E h \in WorkerIds : h # w /\ lock = {h} /\ wpc[h] = "recv"

\* C15 witness: one worker waits inside recv on the empty queue of an open pool and
\* another one waits for the mutex the first one holds.
C15_Witness ==
    \E w \in WorkerIds, h \in WorkerIds :
        /\ poolPc = "open"
        /\ Blocked(w) /\ wpc[w] = "lock"
        /\ Blocked(h) /\ wpc[h] = "recv"

\* C16: at most one worker holds the receiver mutex, a worker holds it exactly
\* while it is inside recv, and no worker that matches or runs a job holds it.
C16_LockOnlyDuringRecv ==
    /\ Cardinality(lock) <= 1
    /\ \A w \in WorkerIds :
        /\ w \in lock <=> wpc[w] = "recv"
        /\ wpc[w] \in {"match", "run"} => w \notin lock

\* C16 witness: with the mutex free, a worker runs a job received after the job
\* that another worker is still running.
C16_Witness ==
    \E w1 \in WorkerIds, w2 \in WorkerIds :
        /\ wpc[w1] = "run" /\ wpc[w2] = "run"
        /\ message[w1][1] < message[w2][1]
        /\ completed[message[w1][1]] = 0
        /\ lock = {}

\* C17: a panicking job ends the worker that runs it and nothing else: that
\* worker stays ended and receives no further job, no worker is added, the mutex
\* is never poisoned, and any other worker can still take the free mutex and go
\* into recv.
C17_PanicKillsOnlyItsWorker ==
    /\ [][\A w \in WorkerIds :
            /\ JobPanic(w) =>
                /\ wpc'[w] = "panicked"
                /\ \A v \in WorkerIds \ {w} : wpc'[v] = wpc[v] /\ message'[v] = message[v]
                /\ lock' = lock
                /\ queue' = queue
                /\ workers' = workers
            /\ wpc[w] = "panicked" =>
                /\ wpc'[w] = "panicked"
                /\ message'[w] = <<>>
                /\ Len(workers') = Len(workers)
                /\ \A v \in WorkerIds : wpc[v] = "unspawned" => wpc'[v] = "unspawned"]_vars
    /\ [](/\ ~poisoned
          /\ \A w \in WorkerIds : wpc[w] = "panicked" => w \notin lock
          /\ \A v \in WorkerIds :
                (failed # {} /\ wpc[v] = "lock" /\ lock = {}) =>
                    ENABLED (WorkerLock(v) /\ wpc'[v] = "recv"))

\* C17 witness: one worker has ended by a panic and another one runs a job.
C17_Witness ==
    \E w \in WorkerIds, v \in WorkerIds :
        /\ wpc[w] = "panicked"
        /\ failed # {}
        /\ wpc[v] = "run"

\* C18: the join of a panicked worker makes drop panic, so the pool is never
\* Closed once a job has panicked.
C18_JoinFailureIsFatal ==
    /\ [][(poolPc = "join" /\ wpc[workers[di + 1].id] = "panicked" /\ poolPc' # poolPc) =>
            poolPc' = "drop_panicked"]_vars
    /\ [](poolPc = "closed" => (failed = {} /\ \A w \in WorkerIds : wpc[w] # "panicked"))
    /\ [](poolPc = "drop_panicked" => \E w \in WorkerIds : wpc[w] = "panicked")

\* C18 witness: drop has panicked at the join of a worker whose job panicked.
C18_Witness ==
    /\ poolPc = "drop_panicked"
    /\ failed # {}

\* C19 as stated: jobs are received in the order they were enqueued, and they are
\* started in that order.
C19_StartOrderIsSubmissionOrder ==
    /\ \A k \in 1..Len(delivered) : delivered[k] = k
    /\ \A a \in Accepted, b \in Accepted : (a < b /\ invoked[b] >= 1) => invoked[a] >= 1

\* C19 as amended: jobs are received in the order they were enqueued (the k-th
\* job received is the k-th job enqueued, and a job still queued was enqueued
\* after every job received); in a pool of one worker they are also started in
\* that order.
C19_FifoDelivery ==
    /\ \A k \in 1..Len(delivered) : delivered[k] = k /\ k \in Accepted
    /\ \A k \in 1..Len(queue) : queue[k] = Len(delivered) + k
    /\ size = 1 =>
          \A a \in Accepted, b \in Accepted : (a < b /\ invoked[b] >= 1) => invoked[a] >= 1

\* C19 witness: in a pool of two workers the second job enqueued has been started
\* while the first one, received before it, has not.
C19_Witness ==
    /\ size = 2
    /\ Len(delivered) >= 2
    /\ invoked[2] = 1
    /\ invoked[1] = 0

\* C20: a job is received only by a worker waiting in recv, so at most size jobs
\* run at a time, each on a worker of its own, and while all size workers run a
\* job nothing leaves the queue.
C20_RunningBoundedByPoolSize ==
    /\ [][/\ delivered' # delivered =>
                \E w \in WorkerIds : wpc[w] = "recv" /\ w \in lock /\ wpc'[w] = "match"
          /\ (PoolExists /\ Cardinality(Running) = size) =>
                (delivered' = delivered /\ Len(queue') >= Len(queue))]_vars
    /\ [](/\ Cardinality(Running) <= size
          /\ Cardinality(RunningJobs) <= size
          /\ RunningJobs = {message[w][1] : w \in Running})

\* C20 witness: both workers of an open pool run a job and a job waits in the queue.
C20_Witness ==
    /\ poolPc = "open"
    /\ size = 2
    /\ Cardinality(Running) = 2
    /\ queue # <<>>

====
